---------------------------- MODULE Spec2Model ----------------------------
(***************************************************************************)
(* Subject dispatch of pestras/micro-nats: the SUBJECT decorator and its   *)
(* registry, MicroNats.init, the per-subscription dispatch loop            *)
(* manageSubscrption, the static helpers Request and Publish, and onExit,  *)
(* in the two revisions of the plugin the repository holds (src/index.ts   *)
(* and src/unnamed/part_000).                                              *)
(*                                                                         *)
(* One step of the model is one synchronous run of JavaScript: from one    *)
(* await to the next.  The nats client, the Micro framework and its logger *)
(* are collaborators: a subscription is a FIFO stream with a processed     *)
(* counter, msg.respond publishes to the reply subject when there is one,  *)
(* JSONCodec.decode raises on bytes that are not JSON, and connect, drain   *)
(* and close return promises that resolve or reject.                       *)
(***************************************************************************)
EXTENDS Naturals, Sequences, FiniteSets, TLC

\* ------------------------------------------------------------- bounds
\* SUBJECT decorators applied before start-up.
MaxRegs == 2
\* Messages published during a run.
MaxMsgs == 3

\* 1024 * 100, the quota of a binding that declares none.
DefaultQuota == 102400

\* ------------------------------------------------------------ fixture
Revisions == {"index", "part_000"}
Subjects  == {"sA", "sB"}
\* Micro.subServices, in the order the sub-services were registered: "sub"
\* carries SUBJECT bindings, "quiet" and "aux" carry none.
SubServices == << "sub", "quiet", "aux" >>
\* Micro.service and the members of Micro.subServices.
Services  == {"main"} \cup { SubServices[i] : i \in 1..Len(SubServices) }

Undefined == "undefined"

\* What service[name] is: "fn" a method, "truthy" a defined member that is
\* not callable (a string, an object), "absent" undefined.
MemberKind(svc, name) ==
  CASE name = "create"   -> "fn"
    [] name = "remove"   -> IF svc = "sub" THEN "fn" ELSE "absent"
    [] name = "publish"  -> IF svc = "main" THEN "fn" ELSE "absent"
    [] name = "auth"     -> IF svc = "main" THEN "fn" ELSE "absent"
    [] name = "validate" -> "fn"
    [] name = "shadow"   -> IF svc = "main" THEN "fn" ELSE "truthy"
    [] name = "label"    -> IF svc = "sub" THEN "truthy" ELSE "absent"
    [] name = "onNatsConnected" -> IF svc = "quiet" THEN "absent" ELSE "fn"
    [] OTHER             -> "absent"

Truthy(kind) == kind \in {"fn", "truthy"}

\* A SUBJECT configuration; dataQuota 0: the configuration names no quota.
Config(hooks, dataQuota, meta) ==
  [hooks |-> hooks, dataQuota |-> dataQuota, meta |-> meta]

Plain == Config(<<>>, 0, "tplNew")

\* The configurations the sub-service's create is declared with.
Configs ==
  { Plain,
    Config(<<"auth", "validate">>, 0, "tplNew"),
    Config(<<"auth", "validate">>, 1, "tplReactivate"),
    Config(<<"shadow", "auth">>, 0, "tplNew"),
    Config(<<"ghost", "auth">>, 0, "tplNew"),
    Config(<<"label", "auth">>, 0, "tplNew") }

Decorator(subject, config, target, key) ==
  [subject |-> subject, config |-> config, target |-> target, key |-> key]

\* The @SUBJECT decorators a service definition may carry.
Decorators ==
  { Decorator("sA", c, "sub", "create") : c \in Configs }
    \cup { Decorator("sA", Plain, "main", "create"),
           Decorator("sB", Config(<<>>, 0, "tplReactivate"), "main", "create"),
           Decorator("sB", Plain, "sub", "remove"),
           Decorator("sB", Plain, "sub", "publish"),
           Decorator("sB", Plain, "main", "remove") }

\* ------------------------------------------------------------- codec
\* Values that travel: a string, an error object {error: {<key>: text+hook}},
\* and bytes.  JSON.stringify of a Uint8Array is an object of its indices,
\* not the value the bytes encode.
Str(text) == [t |-> "str", text |-> text, key |-> "", hook |-> ""]
ErrObj(key, text, hook) == [t |-> "obj", text |-> text, key |-> key, hook |-> hook]

Encode(v) ==
  IF v.t = "bytes"
    THEN [t |-> "bytes", of |-> [t |-> "indexed", of |-> v.of]]
    ELSE [t |-> "bytes", of |-> v]

Decode(b) == b.of

\* ------------------------------------------------------------- state
VARIABLES
  rev,              \* which revision of the plugin runs
  serviceSubjects,  \* the registry: subject -> binding, or NoBinding
  subjectOrder,     \* the registry's keys in insertion order (for ... in)
  declared,         \* subject -> how many SUBJECT calls named it, the last of
                    \* them, and whether it replaced another binding (history)
  phase,            \* "setup" | "connecting" | "running" | "failed"
  _client,          \* the nats connection, or Undefined
  _subs,            \* subjects with a subscription in MicroNats._subs
  ready,            \* ready and live of the plugin
  initLog,          \* what init did after connecting, in order (history)
  stream,           \* subject -> the messages the subscription has buffered, by number
  published,        \* subject -> messages published on it so far
  processed,        \* subject -> sub.getProcessed()
  pc,               \* subject -> where manageSubscrption of it stands
  current,          \* subject -> the record of the message the loop took last
  _instance,        \* whether MicroNats._instance is set
  outbound,         \* the last call of MicroNats.Request or MicroNats.Publish
  exitPc,           \* where the promise chain of onExit stands
  exitLog           \* the drain and close calls of onExit and how they settled

\* The plugin's registry, connection and dispatch loops.
plugin == << rev, serviceSubjects, subjectOrder, declared, phase, _client, _subs,
             ready, initLog, stream, published, processed, pc, current >>

\* The instance, the static helpers and shutdown.
life == << _instance, outbound, exitPc, exitLog >>

vars == << rev, serviceSubjects, subjectOrder, declared, phase, _client, _subs,
           ready, initLog, stream, published, processed, pc, current,
           _instance, outbound, exitPc, exitLog >>

NoBinding == [key |-> Undefined]
NoDecorator == [key |-> Undefined]
NoRecord == [at |-> "NONE"]
NoCall == [op |-> "none"]
NoSend == [via |-> Undefined]

\* An inbound message: whether it names a reply subject, whether its data is JSON.
MessageKinds ==
  { [reply |-> TRUE, decodable |-> TRUE], [reply |-> FALSE, decodable |-> TRUE],
    [reply |-> TRUE, decodable |-> FALSE] }

Init ==
  /\ rev \in Revisions
  /\ serviceSubjects = [s \in Subjects |-> NoBinding]
  /\ subjectOrder = <<>>
  /\ declared = [s \in Subjects |->
                    [n |-> 0, last |-> NoDecorator, replaced |-> FALSE]]
  /\ phase = "setup"
  /\ _client = Undefined
  /\ _subs = {}
  /\ ready = FALSE
  /\ initLog = <<>>
  /\ stream = [s \in Subjects |-> <<>>]
  /\ published = [s \in Subjects |-> 0]
  /\ processed = [s \in Subjects |-> 0]
  /\ pc = [s \in Subjects |-> "none"]
  /\ current = [s \in Subjects |-> NoRecord]
  /\ _instance = FALSE
  /\ outbound = NoCall
  /\ exitPc = "none"
  /\ exitLog = << >>

\* --------------------------------------------------------- registry
\* The binding SUBJECT stores: config.meta is not among its fields.
Binding(target, key, config) ==
  [ service   |-> target,
    hooks     |-> config.hooks,
    dataQuota |-> IF config.dataQuota # 0 THEN config.dataQuota ELSE DefaultQuota,
    key       |-> key ]

\* config.meta as the dispatch loop reads it from a binding.
ConfigMeta(config) ==
  IF "meta" \in DOMAIN config THEN config.meta ELSE Undefined

RECURSIVE SumOver(_, _)
SumOver(f, S) ==
  IF S = {} THEN 0
  ELSE LET x == CHOOSE y \in S : TRUE IN f[x] + SumOver(f, S \ {x})

NumDeclared == SumOver([s \in Subjects |-> declared[s].n], Subjects)

\* SUBJECT keeping the binding a subject already has.
SUBJECTKeepFirst(subject, config, target, key) ==
  /\ phase = "setup"
  /\ NumDeclared < MaxRegs
  /\ serviceSubjects' =
       IF serviceSubjects[subject] = NoBinding
         THEN [serviceSubjects EXCEPT ![subject] = Binding(target, key, config)]
         ELSE serviceSubjects
  /\ subjectOrder' = IF \E i \in 1..Len(subjectOrder) : subjectOrder[i] = subject
                       THEN subjectOrder ELSE Append(subjectOrder, subject)
  /\ declared' = [declared EXCEPT ![subject] =
       [n |-> @.n + 1, last |-> Decorator(subject, config, target, key),
        replaced |-> serviceSubjects[subject] \notin
                       {NoBinding, Binding(target, key, config)}]]
  /\ UNCHANGED life
  /\ UNCHANGED << rev, phase, _client, _subs, ready, initLog, stream, published,
                  processed, pc, current >>

\* SUBJECT replacing the binding a running loop reads.
SUBJECTAtAnyTime(subject, config, target, key) ==
  /\ NumDeclared < MaxRegs
  /\ serviceSubjects' =
       [serviceSubjects EXCEPT ![subject] = Binding(target, key, config)]
  /\ subjectOrder' = IF \E i \in 1..Len(subjectOrder) : subjectOrder[i] = subject
                       THEN subjectOrder ELSE Append(subjectOrder, subject)
  /\ declared' = [declared EXCEPT ![subject] =
       [n |-> @.n + 1, last |-> Decorator(subject, config, target, key),
        replaced |-> serviceSubjects[subject] \notin
                       {NoBinding, Binding(target, key, config)}]]
  /\ UNCHANGED life
  /\ UNCHANGED << rev, phase, _client, _subs, ready, initLog, stream, published,
                  processed, pc, current >>

\* @SUBJECT(subject, config) on method key of class target.
SUBJECT(subject, config, target, key) ==
  /\ phase = "setup"
  /\ NumDeclared < MaxRegs
  /\ serviceSubjects' =
       [serviceSubjects EXCEPT ![subject] = Binding(target, key, config)]
  /\ subjectOrder' = IF \E i \in 1..Len(subjectOrder) : subjectOrder[i] = subject
                       THEN subjectOrder ELSE Append(subjectOrder, subject)
  /\ declared' = [declared EXCEPT ![subject] =
       [n |-> @.n + 1, last |-> Decorator(subject, config, target, key),
        replaced |-> serviceSubjects[subject] \notin
                       {NoBinding, Binding(target, key, config)}]]
  /\ UNCHANGED life
  /\ UNCHANGED << rev, phase, _client, _subs, ready, initLog, stream, published,
                  processed, pc, current >>

\* -------------------------------------------------------------- init
\* Micro.getCurrentService(subjectConf.service) || Micro.service
CurrentService(config) == config.service

\* The test init makes before it subscribes a binding.
HandlerResolves(config) ==
  IF rev = "index"
    THEN MemberKind("main", config.key) = "fn"
    ELSE MemberKind(CurrentService(config), config.key) = "fn"

Notification(svc) ==
  IF MemberKind(svc, "onNatsConnected") = "fn"
    THEN << [ev |-> "onNatsConnected", on |-> svc] >> ELSE << >>

\* for (let service of Micro.subServices) from position i on
RECURSIVE SubNotifications(_)
SubNotifications(i) ==
  IF i > Len(SubServices) THEN << >>
  ELSE Notification(SubServices[i]) \o SubNotifications(i + 1)

\* Notifications telling the sub-services before the primary service.
NotificationsSubsFirst == SubNotifications(1) \o Notification("main")

\* onNatsConnected of the primary service, then of each sub-service.
Notifications == Notification("main") \o SubNotifications(1)

RECURSIVE Subscriptions(_)
Subscriptions(order) ==
  IF order = << >> THEN << >>
  ELSE (IF HandlerResolves(serviceSubjects[Head(order)])
          THEN << [ev |-> "subscribe", on |-> Head(order)] >> ELSE << >>)
       \o Subscriptions(Tail(order))

\* new MicroNats(conf): the first construction sets MicroNats._instance, a
\* later one returns that instance.
constructor ==
  /\ ~_instance
  /\ _instance' = TRUE
  /\ UNCHANGED << outbound, exitPc, exitLog >>
  /\ UNCHANGED plugin

\* init() up to its await of connect().
init ==
  /\ _instance
  /\ phase = "setup"
  /\ phase' = "connecting"
  /\ UNCHANGED life
  /\ UNCHANGED << rev, serviceSubjects, subjectOrder, declared, _client, _subs,
                  ready, initLog, stream, published, processed, pc, current >>

\* connect() resolved: the rest of init(), which has no further await.
initConnected ==
  /\ phase = "connecting"
  /\ phase' = "running"
  /\ _client' = "connection"
  /\ LET subsLog == Subscriptions(subjectOrder)
         active  == { subsLog[i].on : i \in 1..Len(subsLog) }
     IN /\ _subs' = active
        /\ pc' = [s \in Subjects |-> IF s \in active THEN "next" ELSE "none"]
        /\ initLog' = Notifications \o subsLog \o << [ev |-> "ready", on |-> ""] >>
  /\ ready' = TRUE
  /\ UNCHANGED life
  /\ UNCHANGED << rev, serviceSubjects, subjectOrder, declared, stream, published,
                  processed, current >>

\* connect() rejected: init() rejects.
initFailed ==
  /\ phase = "connecting"
  /\ phase' = "failed"
  /\ UNCHANGED life
  /\ UNCHANGED << rev, serviceSubjects, subjectOrder, declared, _client, _subs,
                  ready, initLog, stream, published, processed, pc, current >>

\* ---------------------------------------------------------- dispatch
\* A message published on a subject reaches the subscription's stream.  What
\* it carries is read, and so chosen, when the loop takes it.
Publish(s) ==
  /\ phase = "running"
  /\ s \in _subs
  /\ SumOver(published, Subjects) < MaxMsgs
  /\ published' = [published EXCEPT ![s] = @ + 1]
  /\ stream' = [stream EXCEPT ![s] = Append(@, published[s] + 1)]
  /\ UNCHANGED life
  /\ UNCHANGED << rev, serviceSubjects, subjectOrder, declared, phase, _client,
                  _subs, ready, initLog, processed, pc, current >>

NewRecord(m) ==
  [ msg |-> m, hooks |-> << >>, handler |-> << >>, resp |-> << >>,
    logs |-> << >>, at |-> "RECEIVED", idx |-> 0, raised |-> FALSE,
    quota |-> 0, processed |-> 0 ]

Log(r, level, text) ==
  [r EXCEPT !.logs = Append(@, [level |-> level, text |-> text])]

\* msg.respond(data): published when the message names a reply subject.
MsgRespond(r, data) ==
  [r EXCEPT !.resp = Append(@, [wire |-> data, sent |-> r.msg.reply])]

\* natsMsg.respond(data)
NatsMsgRespond(r, data) ==
  IF rev = "index" THEN MsgRespond(r, data) ELSE MsgRespond(r, Encode(data))

\* The key of the error object's text.
ErrKey == IF rev = "index" THEN "msg" ELSE "message"

\* Evaluating the client argument of a hook or handler call raises:
\* this._client in a function called with no receiver.
ClientArgRaises == rev = "index"

\* The client argument when it evaluates: MicroNats.Client.
ClientArg == _client

\* return inside the loop: manageSubscrption is over.
Return(r) == [r |-> [r EXCEPT !.at = "DONE"], pc |-> "ended"]

\* The end of the loop's body: on to the next message.
NextMessage(r) == [r |-> [r EXCEPT !.at = "DONE"], pc |-> "next"]

HookNotFound(r, hook) ==
  Return(Log(NatsMsgRespond(r, Encode(ErrObj(ErrKey, "hook unhandled error", hook))),
             "warn", "Hook not found"))

HookInvalid(r, hook) ==
  Return(Log(NatsMsgRespond(r, Encode(ErrObj(ErrKey, "hook unhandled error", hook))),
             "warn", "invalid hook type"))

HookBlocked(r, hook) ==
  Return(Log(NatsMsgRespond(r, Encode(ErrObj(ErrKey, "blocked by hook: ", hook))),
             "info", "blocked by hook"))

HookCatch(r, hook) ==
  Return(Log(NatsMsgRespond(r, Encode(ErrObj(ErrKey, "hook unhandled error", hook))),
             "error", "e"))

HandlerCatch(r) ==
  NextMessage(Log(
    IF rev = "index"
      THEN NatsMsgRespond(r, Encode(ErrObj("msg", "unknownError", "")))
      ELSE NatsMsgRespond(r, ErrObj("message", "unknownError", "")),
    "error", "e, subject, method"))

\* HandlerEnded answering the requester once the handler is through.
HandlerEndedAnswering(r) ==
  NextMessage(Log(NatsMsgRespond(r, Encode(Str("done"))), "info", "subject ended"))

HandlerEnded(r) == NextMessage(Log(r, "info", "subject ended"))

\* service[config.key](natsMsg, client, config.meta) and what follows it.
CallHandler(s, r, hout) ==
  LET config  == serviceSubjects[s]
      service == CurrentService(config)
  IN IF ClientArgRaises \/ MemberKind(service, config.key) # "fn"
       THEN HandlerCatch([r EXCEPT !.at = "HANDLER"])
       ELSE LET r1 == [r EXCEPT !.at = "HANDLER",
                         !.handler = Append(@, [owner |-> service, key |-> config.key,
                                                client |-> ClientArg,
                                                meta |-> ConfigMeta(config),
                                                ret |-> hout])]
            IN CASE hout = "return"  -> HandlerEnded(r1)
                 [] hout = "throw"   -> HandlerCatch(r1)
                 [] hout = "promise" -> [r |-> r1, pc |-> "handlerWait"]

\* HookOwner looking at the primary service first.
HookOwnerPrimaryFirst(service, hook) ==
  IF Truthy(MemberKind("main", hook)) THEN "main" ELSE service

\* Which object's member the hook call takes: service[hook] ? service : Micro.service
HookOwner(service, hook) ==
  IF Truthy(MemberKind(service, hook)) THEN service ELSE "main"

\* The hook loop from position i; outs[j] is what hook j returns when called.
RECURSIVE RunHooks(_, _, _, _, _)
RunHooks(s, r, i, outs, hout) ==
  LET config  == serviceSubjects[s]
      service == CurrentService(config)
  IN IF i > Len(config.hooks) THEN CallHandler(s, r, hout)
     ELSE
       LET hook  == config.hooks[i]
           local == MemberKind(service, hook)
           main  == MemberKind("main", hook)
           owner == HookOwner(service, hook)
           r0    == [r EXCEPT !.at = "HOOKS", !.idx = i]
       IN IF local = "absent" /\ main = "absent" THEN HookNotFound(r0, hook)
          ELSE IF local # "fn" /\ main # "fn" THEN HookInvalid(r0, hook)
          ELSE IF ClientArgRaises \/ MemberKind(owner, hook) # "fn"
            THEN HookCatch(r0, hook)
          ELSE
            LET r1 == [r0 EXCEPT !.hooks =
                         Append(@, [pos |-> i, name |-> hook, owner |-> owner,
                                    client |-> ClientArg, key |-> config.key,
                                    meta |-> ConfigMeta(config),
                                    ret |-> outs[i]])]
            IN CASE outs[i] = "truthy"  -> RunHooks(s, r1, i + 1, outs, hout)
                 [] outs[i] = "falsy"   -> HookBlocked(r1, hook)
                 [] outs[i] = "throw"   -> HookCatch(r1, hook)
                 [] outs[i] = "promise" -> [r |-> r1, pc |-> "hookWait"]

\* Dispatch with the quota comparison left out.
DispatchWithoutQuota(s, m, count, outs, hout) ==
  LET config == serviceSubjects[s]
      r0 == Log(NewRecord(m), "info", "subject called")
      r1 == [r0 EXCEPT !.at = "QUOTA_CHECK", !.quota = config.dataQuota,
                       !.processed = count]
  IN IF ~m.decodable
       THEN [r |-> [r0 EXCEPT !.at = "DONE", !.raised = TRUE], pc |-> "ended"]
       ELSE RunHooks(s, r1, 1, outs, hout)

\* The loop's body for message m, up to its first await or its end.
Dispatch(s, m, count, outs, hout) ==
  LET config == serviceSubjects[s]
      r0 == Log(NewRecord(m), "info", "subject called")
      r1 == [r0 EXCEPT !.at = "QUOTA_CHECK", !.quota = config.dataQuota,
                       !.processed = count]
  IN IF ~m.decodable
       THEN [r |-> [r0 EXCEPT !.at = "DONE", !.raised = TRUE], pc |-> "ended"]
     ELSE IF config.dataQuota # 0 /\ config.dataQuota < count
       THEN Return(Log(MsgRespond(r1, Encode(Str("msg body quota exceeded"))),
                       "warn", "msg body quota exceeded"))
     ELSE RunHooks(s, r1, 1, outs, hout)

HookReturns == {"truthy", "falsy", "throw", "promise"}
HandlerReturns == {"return", "throw", "promise"}

\* What the hooks from position i on return when called.
\* No hook is called after one that did not return a plain truthy value.
HookScripts(s, i) ==
  LET n == Len(serviceSubjects[s].hooks)
  IN { sc \in [i..n -> HookReturns] :
         \A j \in i..n : \A k \in i..n :
           (j < k /\ sc[j] # "truthy") => sc[k] = "truthy" }

\* What the hooks from position i on and the handler return when called; the
\* handler is not called unless every hook returned a plain truthy value.
Runs(s, i) ==
  { [outs |-> sc, hout |-> h] : sc \in HookScripts(s, i), h \in HandlerReturns }
    \ { run \in [outs : HookScripts(s, i), hout : HandlerReturns \ {"return"}] :
          \E j \in DOMAIN run.outs : run.outs[j] # "truthy" }

\* The awaited promise of the last call settles: what the call came to is
\* recorded as for a call that returned or threw at once (history only).
Settled(r, calls, v) ==
  IF calls = "hooks"
    THEN [r EXCEPT !.hooks[Len(r.hooks)].ret = IF v = "reject" THEN "throw" ELSE v]
    ELSE [r EXCEPT !.handler[Len(r.handler)].ret =
                     IF v = "reject" THEN "throw" ELSE "return"]

\* The loop of a subject other than s is awaiting a hook or a handler.
Suspended(s) ==
  \E t \in Subjects \ {s} : pc[t] \in {"hookWait", "handlerWait"}

\* manageSubscrption taking the next message while the one before it is
\* still awaiting a hook or the handler.
manageSubscrptionEager(s) ==
  /\ pc[s] \in {"next", "hookWait", "handlerWait"}
  /\ stream[s] # << >>
  /\ stream' = [stream EXCEPT ![s] = Tail(@)]
  /\ processed' = [processed EXCEPT ![s] = @ + 1]
  /\ \E k \in MessageKinds, run \in Runs(s, 1) :
       LET m   == [seq |-> Head(stream[s]), reply |-> k.reply,
                   decodable |-> k.decodable]
           res == Dispatch(s, m, processed[s] + 1, run.outs, run.hout)
       IN /\ current' = [current EXCEPT ![s] = res.r]
          /\ pc' = [pc EXCEPT ![s] = res.pc]
  /\ UNCHANGED life
  /\ UNCHANGED << rev, serviceSubjects, subjectOrder, declared, phase, _client,
                  _subs, ready, initLog, published >>

\* manageSubscrption waiting for the loops of all other subjects to be idle.
manageSubscrptionSerial(s) ==
  /\ pc[s] = "next"
  /\ ~Suspended(s)
  /\ stream[s] # << >>
  /\ stream' = [stream EXCEPT ![s] = Tail(@)]
  /\ processed' = [processed EXCEPT ![s] = @ + 1]
  /\ \E k \in MessageKinds, run \in Runs(s, 1) :
       LET m   == [seq |-> Head(stream[s]), reply |-> k.reply,
                   decodable |-> k.decodable]
           res == Dispatch(s, m, processed[s] + 1, run.outs, run.hout)
       IN /\ current' = [current EXCEPT ![s] = res.r]
          /\ pc' = [pc EXCEPT ![s] = res.pc]
  /\ UNCHANGED life
  /\ UNCHANGED << rev, serviceSubjects, subjectOrder, declared, phase, _client,
                  _subs, ready, initLog, published >>

\* for await: the subscription yields its next message.
manageSubscrption(s) ==
  /\ pc[s] = "next"
  /\ stream[s] # << >>
  /\ stream' = [stream EXCEPT ![s] = Tail(@)]
  /\ processed' = [processed EXCEPT ![s] = @ + 1]
  /\ \E k \in MessageKinds, run \in Runs(s, 1) :
       LET m   == [seq |-> Head(stream[s]), reply |-> k.reply,
                   decodable |-> k.decodable]
           res == Dispatch(s, m, processed[s] + 1, run.outs, run.hout)
       IN /\ current' = [current EXCEPT ![s] = res.r]
          /\ pc' = [pc EXCEPT ![s] = res.pc]
  /\ UNCHANGED life
  /\ UNCHANGED << rev, serviceSubjects, subjectOrder, declared, phase, _client,
                  _subs, ready, initLog, published >>

\* let passed = await ret: the hook's promise settles.
hookSettled(s) ==
  /\ pc[s] = "hookWait"
  /\ \E v \in {"truthy", "falsy", "reject"} :
     \E run \in (IF v = "truthy" THEN Runs(s, current[s].idx + 1)
                                 ELSE {[outs |-> << >>, hout |-> "return"]}) :
       LET r    == Settled(current[s], "hooks", v)
           hook == serviceSubjects[s].hooks[r.idx]
           res  == CASE v = "truthy" -> RunHooks(s, r, r.idx + 1, run.outs, run.hout)
                     [] v = "falsy"  -> HookBlocked(r, hook)
                     [] v = "reject" -> HookCatch(r, hook)
       IN /\ current' = [current EXCEPT ![s] = res.r]
          /\ pc' = [pc EXCEPT ![s] = res.pc]
  /\ UNCHANGED life
  /\ UNCHANGED << rev, serviceSubjects, subjectOrder, declared, phase, _client,
                  _subs, ready, initLog, stream, published, processed >>

\* await ret: the handler's promise settles.
handlerSettled(s) ==
  /\ pc[s] = "handlerWait"
  /\ \E v \in {"resolve", "reject"} :
       LET r   == Settled(current[s], "handler", v)
           res == IF v = "resolve" THEN HandlerEnded(r) ELSE HandlerCatch(r)
       IN /\ current' = [current EXCEPT ![s] = res.r]
          /\ pc' = [pc EXCEPT ![s] = res.pc]
  /\ UNCHANGED life
  /\ UNCHANGED << rev, serviceSubjects, subjectOrder, declared, phase, _client,
                  _subs, ready, initLog, stream, published, processed >>

\* ----------------------------------------------------------- helpers
\* static get Client: MicroNats._instance?.client
Client == IF _instance THEN _client ELSE Undefined

\* What a caller hands to a helper as data.
Datas == {"undefined", "falsy", "value"}

\* data ? MicroNats.Encode(data) : undefined
Payload(data) ==
  IF data = "value" THEN Encode(Str(data)) ELSE [t |-> "undefined"]

NotConnected(op) ==
  [op |-> op, error |-> "MicroNats is not connected", sent |-> NoSend]

Forwarded(op, data) ==
  [op |-> op, error |-> "", sent |-> [via |-> Client, payload |-> Payload(data)]]

\* MicroNats.Request forwarding whatever MicroNats.Client is.
MicroNatsRequestUnguarded(data) ==
  /\ outbound' = Forwarded("Request", data)
  /\ UNCHANGED << _instance, exitPc, exitLog >>
  /\ UNCHANGED plugin

\* MicroNats.Request(subject, data), up to its await of the reply.
MicroNatsRequest(data) ==
  /\ outbound' = IF Client = Undefined THEN NotConnected("Request")
                                        ELSE Forwarded("Request", data)
  /\ UNCHANGED << _instance, exitPc, exitLog >>
  /\ UNCHANGED plugin

\* MicroNats.Publish(subject, data), which the later revision adds.
MicroNatsPublish(data) ==
  /\ rev = "part_000"
  /\ outbound' = IF Client = Undefined THEN NotConnected("Publish")
                                        ELSE Forwarded("Publish", data)
  /\ UNCHANGED << _instance, exitPc, exitLog >>
  /\ UNCHANGED plugin

\* ---------------------------------------------------------- shutdown
\* onExit(): !!this._client && this._client.drain().then(close).catch(close)
onExit ==
  /\ _instance
  /\ exitPc = "none"
  /\ IF _client = Undefined
       THEN exitPc' = "done" /\ exitLog' = << >>
       ELSE exitPc' = "draining" /\ exitLog' = << "drain" >>
  /\ UNCHANGED << _instance, outbound >>
  /\ UNCHANGED plugin

\* drain() settles: the then callback, or the catch callback, calls close().
drainSettled ==
  /\ exitPc = "draining"
  /\ \E v \in {"resolved", "rejected"} :
       /\ exitLog' = exitLog \o << "drain " \o v, "close" >>
       /\ exitPc' = IF v = "resolved" THEN "closeInThen" ELSE "closeInCatch"
  /\ UNCHANGED << _instance, outbound >>
  /\ UNCHANGED plugin

\* close() settles.  Rejected inside then: the catch callback calls close()
\* again.  Rejected inside catch: the chain's last promise rejects, and
\* nothing is attached to it.
closeSettled ==
  /\ exitPc \in {"closeInThen", "closeInCatch"}
  /\ \E v \in {"resolved", "rejected"} :
       CASE v = "resolved" ->
              /\ exitLog' = Append(exitLog, "close resolved")
              /\ exitPc' = "done"
         [] v = "rejected" /\ exitPc = "closeInThen" ->
              /\ exitLog' = exitLog \o << "close rejected", "close" >>
              /\ exitPc' = "closeInCatch"
         [] v = "rejected" /\ exitPc = "closeInCatch" ->
              /\ exitLog' = Append(exitLog, "close rejected")
              /\ exitPc' = "unhandledRejection"
  /\ UNCHANGED << _instance, outbound >>
  /\ UNCHANGED plugin

\* ------------------------------------------------------ specification
Register ==
  \E d \in Decorators : SUBJECT(d.subject, d.config, d.target, d.key)

Deliver == \E s \in Subjects : Publish(s)

Receive == \E s \in Subjects : manageSubscrption(s)

SettleHook == \E s \in Subjects : hookSettled(s)

SettleHandler == \E s \in Subjects : handlerSettled(s)

Next ==
  \/ Register
  \/ constructor
  \/ init
  \/ initConnected
  \/ initFailed
  \/ Deliver
  \/ Receive
  \/ SettleHook
  \/ SettleHandler

Spec == Init /\ [][Next]_vars

\* The instance from its construction to shutdown, with the static helpers
\* called at any time; no message is published.
CallRequest == \E data \in Datas : MicroNatsRequest(data)

CallPublish == \E data \in Datas : MicroNatsPublish(data)

LifeNext ==
  \/ Register
  \/ constructor
  \/ init
  \/ initConnected
  \/ initFailed
  \/ CallRequest
  \/ CallPublish
  \/ onExit
  \/ drainSettled
  \/ closeSettled

LifeSpec == Init /\ [][LifeNext]_vars

\* ------------------------------------------------------------ claims
\* The loop of subject s has taken a message.
Taken(s) == current[s].at # "NONE"

Logged(r, text) == \E i \in 1..Len(r.logs) : r.logs[i].text = text

\* The single response of r, as the requester decodes it.
Seen(r) == Decode(r.resp[1].wire)

\* One response went to msg.respond, and was published iff the message
\* names a reply subject.
OneResponse(r) == Len(r.resp) = 1 /\ r.resp[1].sent = r.msg.reply

\* The hook called last returned a falsy value or resolved to one.
BlockedByHook(r) == r.hooks # << >> /\ r.hooks[Len(r.hooks)].ret = "falsy"

\* Hooks 1..k of the chain were called once each, in declared order.
CalledInOrder(s, r) ==
  \A i \in 1..Len(r.hooks) :
    r.hooks[i].pos = i /\ r.hooks[i].name = serviceSubjects[s].hooks[i]

\* C1 (as claimed): when hook hk is the first to return or resolve falsy,
\* h1..hk were each called once in declared order, no later hook and no
\* handler was called, and exactly one response was made, which reads
\* "blocked by hook: hk".
C1_BlockedChainAnswersOnce ==
  \A s \in Subjects :
    (Taken(s) /\ BlockedByHook(current[s])) =>
      LET r == current[s]
          hk == serviceSubjects[s].hooks[Len(r.hooks)]
      IN /\ CalledInOrder(s, r)
         /\ r.handler = << >>
         /\ OneResponse(r)
         /\ Seen(r).t = "obj"
         /\ Seen(r).text = "blocked by hook: "
         /\ Seen(r).hook = hk

\* The message of r passed the quota check: its envelope was built and the
\* processed count did not exceed the quota.
PassedQuota(r) == r.at # "RECEIVED" /\ ~r.raised /\ ~(r.quota < r.processed)

HookResponse(r) ==
  \E i \in 1..Len(r.resp) :
    LET d == Decode(r.resp[i].wire)
        v == IF d.t = "indexed" THEN d.of ELSE d
    IN v.text \in {"blocked by hook: ", "hook unhandled error"}

\* C2 (as claimed): on a subject bound with no hooks, a message (that
\* passed the quota check) has its handler called exactly once by the time
\* its dispatch is done, and no hook response is made for it.
C2_NoHooksHandlerOnce ==
  \A s \in Subjects :
    (Taken(s) /\ serviceSubjects[s].hooks = << >> /\ PassedQuota(current[s])) =>
      /\ ~HookResponse(current[s])
      /\ Len(current[s].handler) <= 1
      /\ current[s].at = "DONE" => Len(current[s].handler) = 1

\* The quota check of the message of r found the processed count above the
\* binding's quota.
QuotaExceeded(r) == r.at # "RECEIVED" /\ ~r.raised /\ r.quota < r.processed

\* C3 (as claimed): after a message is rejected for quota, the loop of its
\* subject is still running, waiting for the next message.
C3_QuotaRejectionKeepsLoop ==
  \A s \in Subjects :
    (Taken(s) /\ QuotaExceeded(current[s])) => pc[s] = "next"

\* The hook chain of the message of r failed: a hook was not resolved,
\* returned or resolved falsy, or threw or rejected.
HookFailed(r) ==
  \/ Logged(r, "Hook not found")
  \/ Logged(r, "invalid hook type")
  \/ Logged(r, "blocked by hook")
  \/ Logged(r, "e")

\* C4 (as claimed): a hook failure ends the dispatch of its message only;
\* the loop of the subject goes on to the next message.
C4_HookFailureKeepsLoop ==
  \A s \in Subjects :
    (Taken(s) /\ HookFailed(current[s])) => pc[s] = "next"

\* C4, the part about other subjects: a step of one subject's loop leaves
\* the loops of the other subjects where they were.
C4_OtherLoopsUntouched ==
  [][\A s \in Subjects :
       current'[s] # current[s] =>
         \A t \in Subjects \ {s} : pc'[t] = pc[t] /\ current'[t] = current[t]]_vars

\* The handler call of the message of r raised: the handler threw, its
\* promise rejected, or the call expression itself raised.
HandlerCallRaised(r) == Logged(r, "e, subject, method")

C5_HandlerThrewAnswered ==
  \A s \in Subjects :
    (Taken(s) /\ current[s].handler # << >> /\ current[s].handler[1].ret = "throw") =>
      LET r == current[s]
      IN /\ Cardinality({i \in 1..Len(r.logs) : r.logs[i].level = "error"}) = 1
         /\ OneResponse(r)
         /\ Seen(r) = ErrObj("message", "unknownError", "")
         /\ ~Logged(r, "subject ended")
         /\ pc[s] = "next"

C7_LocalHookFirst ==
  \A s \in Subjects :
    Taken(s) =>
      \A i \in 1..Len(current[s].hooks) :
        LET e     == current[s].hooks[i]
            local == CurrentService(serviceSubjects[s])
        IN /\ MemberKind(e.owner, e.name) = "fn"
           /\ MemberKind(local, e.name) = "fn" => e.owner = local
           /\ e.owner # local => MemberKind(local, e.name) = "absent"

\* A sub-service binding called its own validate, which the primary service
\* defines too, after the primary's auth, which it lacks.
C7_Witness ==
  \E s \in Subjects :
    /\ Taken(s)
    /\ CurrentService(serviceSubjects[s]) = "sub"
    /\ Len(current[s].hooks) = 2
    /\ current[s].hooks[1].name = "auth" /\ current[s].hooks[1].owner = "main"
    /\ current[s].hooks[2].name = "validate" /\ current[s].hooks[2].owner = "sub"
    /\ MemberKind("main", "validate") = "fn"

\* The hook at the position the chain of r reached.
ReachedHook(s, r) == serviceSubjects[s].hooks[r.idx]

\* C8 (as claimed, for the revision whose hook calls are entered): when the
\* hook the chain reached is not a method of the binding's service (absent,
\* or present and not callable) and is a method of the primary service, the
\* primary's method is called and no "hook unhandled error" is answered for
\* the failure to resolve it.
C8_FallbackToPrimary ==
  \A s \in Subjects :
    (rev = "part_000" /\ Taken(s) /\ current[s].idx > 0) =>
      LET r     == current[s]
          hook  == ReachedHook(s, r)
          local == CurrentService(serviceSubjects[s])
      IN (MemberKind(local, hook) # "fn" /\ MemberKind("main", hook) = "fn") =>
           /\ Len(r.hooks) = r.idx
           /\ r.hooks[r.idx].owner = "main"
           /\ r.hooks[r.idx].ret # "throw" => ~Logged(r, "e")

\* The binding the last SUBJECT call on s declared.
LastBinding(s) ==
  Binding(declared[s].last.target, declared[s].last.key, declared[s].last.config)

SubscribeCalls(s) ==
  Cardinality({ i \in 1..Len(initLog) : initLog[i] = [ev |-> "subscribe", on |-> s] })

\* C9: the registry holds, for a subject, the binding of the last SUBJECT
\* call that named it; init subscribes a subject at most once; and the
\* loop of the subject checks that binding's quota, calls that binding's
\* hooks and that binding's handler.
C9_LastRegistrationWins ==
  \A s \in Subjects :
    /\ declared[s].n = 0 => serviceSubjects[s] = NoBinding /\ s \notin _subs
    /\ declared[s].n > 0 => serviceSubjects[s] = LastBinding(s)
    /\ SubscribeCalls(s) <= 1
    /\ (s \in _subs) = (SubscribeCalls(s) = 1)
    /\ Taken(s) =>
         LET r == current[s]
             b == LastBinding(s)
         IN /\ r.quota \in {0, b.dataQuota}
            /\ CalledInOrder(s, r)
            /\ \A i \in 1..Len(r.hooks) :
                 r.hooks[i].name = b.hooks[i] /\ r.hooks[i].key = b.key
            /\ \A i \in 1..Len(r.handler) :
                 r.handler[i].owner = b.service /\ r.handler[i].key = b.key

\* A subject declared twice, the second call replacing a different binding,
\* has one subscription and a message handled by the second binding.
C9_Witness ==
  \E s \in Subjects :
    /\ declared[s].n = 2
    /\ declared[s].replaced
    /\ s \in _subs
    /\ Taken(s)
    /\ Len(current[s].handler) = 1

\* C10 (as claimed): every handler call, and every hook call, of a message
\* on subject s receives the meta that the SUBJECT call of s declared.
C10_MetaReachesHandler ==
  \A s \in Subjects :
    Taken(s) =>
      /\ \A i \in 1..Len(current[s].handler) :
           current[s].handler[i].meta = declared[s].last.config.meta
      /\ \A i \in 1..Len(current[s].hooks) :
           current[s].hooks[i].meta = declared[s].last.config.meta

\* The declared handler name of the binding of s is a method of the service
\* the binding was declared on.
ResolvesOnOwner(s) ==
  MemberKind(CurrentService(serviceSubjects[s]), serviceSubjects[s].key) = "fn"

\* C11 (as claimed): once init has connected, a subject with a binding has
\* a subscription and a running loop exactly when the binding's handler
\* name is a method of its owning service; start-up does not fail over a
\* binding that is skipped, and the other bindings are still activated.
C11_ActivatedIffResolves ==
  phase = "running" =>
    /\ ready
    /\ \A s \in Subjects :
         serviceSubjects[s] # NoBinding =>
           /\ (s \in _subs) = ResolvesOnOwner(s)
           /\ (pc[s] # "none") = ResolvesOnOwner(s)

\* C11, the part about skipping: init ends ready whatever the bindings are,
\* and a binding that is skipped does not keep a later one from its
\* subscription.
C11_SkipIsNotFatal ==
  phase = "running" =>
    /\ ready
    /\ \A s \in Subjects :
         (serviceSubjects[s] # NoBinding /\ HandlerResolves(serviceSubjects[s]))
           => s \in _subs /\ pc[s] # "none"

\* The number of the message the loop of s took last; 0 before the first.
SeqNo(r) == IF r.at = "NONE" THEN 0 ELSE r.msg.seq

\* C12: the loop of a subject takes its messages one at a time, in the
\* order they arrived: it takes a message only when the one before it is
\* done (never while a hook or the handler of that one is awaited), the
\* message it takes is the oldest one buffered, and the ones still buffered
\* are the later ones in order.
C12_OneAtATime ==
  [][\A s \in Subjects :
       /\ \A i \in 1..Len(stream[s]) : stream[s][i] = SeqNo(current[s]) + i
       /\ SeqNo(current'[s]) # SeqNo(current[s]) =>
            /\ pc[s] = "next"
            /\ current[s].at \in {"NONE", "DONE"}
            /\ stream[s] # << >>
            /\ SeqNo(current'[s]) = Head(stream[s])
            /\ SeqNo(current'[s]) = SeqNo(current[s]) + 1
            /\ Len(current'[s].logs) >= 1
            /\ current'[s].logs[1].text = "subject called"]_vars

\* The second message of a subject is awaiting a hook while the third is
\* buffered behind it.
C12_Witness ==
  \E s \in Subjects :
    /\ SeqNo(current[s]) = 2
    /\ pc[s] = "hookWait"
    /\ stream[s] = << 3 >>

Waiting(s) == pc[s] \in {"hookWait", "handlerWait"}

\* C13: the loops of distinct subjects do not wait for one another: while
\* the message of one subject is awaiting a hook or the handler (and stays
\* so), the loop of another subject can take its next buffered message and
\* bring it to DONE, and can bring its own message to DONE once the hook or
\* handler that one awaits has settled.
C13_NoGlobalSerialization ==
  \A a \in Subjects : \A b \in Subjects \ {a} :
    Waiting(a) =>
      /\ (pc[b] = "next" /\ stream[b] # << >>) =>
           ENABLED (/\ manageSubscrption(b)
                    /\ current'[b].at = "DONE"
                    /\ pc'[a] = pc[a])
      /\ pc[b] = "hookWait" =>
           ENABLED (hookSettled(b) /\ current'[b].at = "DONE" /\ pc'[a] = pc[a])
      /\ pc[b] = "handlerWait" =>
           ENABLED (handlerSettled(b) /\ current'[b].at = "DONE" /\ pc'[a] = pc[a])

\* The first message of one subject is awaiting its handler while a message
\* is buffered for another subject, whose loop has already handled one.
C13_Witness ==
  \E a \in Subjects : \E b \in Subjects \ {a} :
    /\ SeqNo(current[a]) = 1
    /\ pc[a] = "handlerWait"
    /\ SeqNo(current[b]) = 1
    /\ Logged(current[b], "subject ended")
    /\ pc[b] = "next"
    /\ stream[b] # << >>

\* C14 (as claimed): for a message whose data is not JSON, building the
\* envelope does not raise, the message goes on to the quota check, and the
\* loop of its subject is not ended by it.
C14_DecodeFailureNotFatal ==
  \A s \in Subjects :
    (Taken(s) /\ ~current[s].msg.decodable) =>
      /\ ~current[s].raised
      /\ current[s].quota # 0
      /\ pc[s] # "ended"

\* C15: a call of MicroNats.Request or MicroNats.Publish made while there
\* is no connection (no instance yet, or connect() has not resolved) fails
\* with the error "MicroNats is not connected" and asks nothing of the bus;
\* a call made once there is a connection is forwarded to that connection.
C15_HelpersNeedConnection ==
  [][outbound' # outbound =>
       /\ outbound'.op \in {"Request", "Publish"}
       /\ IF ~_instance \/ _client = Undefined
            THEN /\ outbound'.error = "MicroNats is not connected"
                 /\ outbound'.sent = NoSend
            ELSE /\ outbound'.error = ""
                 /\ outbound'.sent.via = "connection"
                 /\ outbound'.sent.via = _client]_vars

\* MicroNats.Publish was refused while init was awaiting connect().
C15_Witness ==
  /\ outbound = NotConnected("Publish")
  /\ _instance
  /\ phase = "connecting"
  /\ _client = Undefined

\* drain() of onExit has settled before position i of exitLog.
DrainSettledBefore(log, i) ==
  \E j \in 1..(i - 1) : log[j] \in {"drain resolved", "drain rejected"}

\* With a connection, onExit calls drain() first and close() only after
\* drain() has settled, after a drain() that resolved and after one that
\* rejected alike; with no connection it calls nothing.
DrainThenClose ==
  /\ (exitPc = "none" /\ exitPc' # "none") =>
       IF _client = Undefined
         THEN exitPc' = "done" /\ exitLog' = << >>
         ELSE exitPc' = "draining" /\ exitLog' = << "drain" >>
  /\ \A i \in 1..Len(exitLog') :
       exitLog'[i] = "close" => DrainSettledBefore(exitLog', i)
  /\ (exitPc = "draining" /\ exitPc' # "draining") =>
       exitLog'[Len(exitLog')] = "close"

\* C20 (as claimed): shutdown drains, then closes whether drain() resolved
\* or rejected, never closes before drain() has settled, does nothing with
\* no connection, and lets no error out, also when close() fails.
C20_ShutdownContained ==
  [][DrainThenClose /\ exitPc' # "unhandledRejection"]_vars

\* C20, the order of the calls alone.
C20_DrainThenClose == [][DrainThenClose]_vars

\* The hook the chain of r reached is a method neither of the binding's
\* service nor of the primary service.
HookUnresolved(s, r) ==
  /\ r.idx > 0
  /\ MemberKind(CurrentService(serviceSubjects[s]), ReachedHook(s, r)) # "fn"
  /\ MemberKind("main", ReachedHook(s, r)) # "fn"

Warned(r) == \E i \in 1..Len(r.logs) : r.logs[i].level = "warn"

\* C16 (as claimed): when the hook the chain reached is callable neither
\* on the binding's service nor on the primary service, the dispatch of
\* the message ends there: one "hook unhandled error" response is made, a
\* warning is logged, that hook and the ones after it are not called and
\* the handler is not called.
C16_UnresolvedHookAborts ==
  \A s \in Subjects :
    (Taken(s) /\ HookUnresolved(s, current[s])) =>
      LET r == current[s]
      IN /\ r.at = "DONE"
         /\ Len(r.hooks) = r.idx - 1
         /\ r.handler = << >>
         /\ Warned(r)
         /\ OneResponse(r)
         /\ Seen(r).t = "obj"
         /\ Seen(r).text = "hook unhandled error"

\* The hook called last threw, or the promise it returned rejected.
HookThrew(r) == r.hooks # << >> /\ r.hooks[Len(r.hooks)].ret = "throw"

\* C17 (as claimed): when a hook throws or its promise rejects, exactly one
\* "hook unhandled error" response naming the hook is made, the exception
\* is logged at error level, and neither a later hook nor the handler is
\* called.
C17_HookThrowAnswered ==
  \A s \in Subjects :
    (Taken(s) /\ HookThrew(current[s])) =>
      LET r == current[s]
      IN /\ r.at = "DONE"
         /\ Len(r.hooks) = r.idx
         /\ r.handler = << >>
         /\ Cardinality({i \in 1..Len(r.logs) : r.logs[i].level = "error"}) = 1
         /\ OneResponse(r)
         /\ Seen(r).t = "obj"
         /\ Seen(r).text = "hook unhandled error"
         /\ Seen(r).hook = r.hooks[Len(r.hooks)].name

\* Every hook of the chain of s was called once, in declared order, and
\* returned or resolved to a truthy value.
AllHooksPassed(s, r) ==
  /\ Len(r.hooks) = Len(serviceSubjects[s].hooks)
  /\ CalledInOrder(s, r)
  /\ \A i \in 1..Len(r.hooks) : r.hooks[i].ret = "truthy"

\* C18, the direction that restricts: the handler is called at most once,
\* and only for a message that passed the quota check and all of whose
\* hooks were called once, in order, and passed, the result of the last
\* one being in hand.
C18_HandlerOnlyAfterHooks ==
  \A s \in Subjects :
    Taken(s) =>
      /\ Len(current[s].handler) <= 1
      /\ current[s].handler # << >> =>
           PassedQuota(current[s]) /\ AllHooksPassed(s, current[s])

\* C18 (as claimed): the handler is called for a message exactly when the
\* message passed the quota check and every hook of the chain was called
\* once, in declared order, and passed; it is called only once the last
\* hook's result is in hand.
C18_HandlerIffHooksPassed ==
  \A s \in Subjects :
    Taken(s) =>
      /\ Len(current[s].handler) <= 1
      /\ current[s].handler # << >> =>
           PassedQuota(current[s]) /\ AllHooksPassed(s, current[s])
      /\ (PassedQuota(current[s]) /\ AllHooksPassed(s, current[s])) =>
           current[s].handler # << >>

\* The entries of initLog of one kind, in order.
EventsOf(ev) == SelectSeq(initLog, LAMBDA e : e.ev = ev)

DefinesOnConnected(svc) == MemberKind(svc, "onNatsConnected") = "fn"

\* The position of the first, and of the last, entry of a kind in initLog;
\* with no such entry the first lies behind the log and the last before it.
FirstOf(ev) ==
  IF \E i \in 1..Len(initLog) : initLog[i].ev = ev
    THEN CHOOSE i \in 1..Len(initLog) :
           initLog[i].ev = ev /\ \A j \in 1..(i - 1) : initLog[j].ev # ev
    ELSE Len(initLog) + 1

LastOf(ev) ==
  IF \E i \in 1..Len(initLog) : initLog[i].ev = ev
    THEN CHOOSE i \in 1..Len(initLog) :
           initLog[i].ev = ev /\ \A j \in (i + 1)..Len(initLog) : initLog[j].ev # ev
    ELSE 0

\* C19: once connected, init tells the primary service first (if it defines
\* onNatsConnected), then each sub-service that defines it, in registration
\* order; it subscribes bindings only after the last notification; and the
\* plugin is ready and live only after every binding of the registry was
\* looked at, and never before there is a connection.
C19_ConnectedThenActivatedThenReady ==
  /\ ready => phase = "running" /\ _client = "connection"
  /\ phase # "running" => initLog = << >> /\ _subs = {}
  /\ phase = "running" =>
       /\ ready
       /\ EventsOf("onNatsConnected") =
            SelectSeq(<< [ev |-> "onNatsConnected", on |-> "main"] >>, LAMBDA e : DefinesOnConnected(e.on))
            \o SelectSeq([i \in 1..Len(SubServices) |->
                            [ev |-> "onNatsConnected", on |-> SubServices[i]]],
                         LAMBDA e : DefinesOnConnected(e.on))
       /\ LastOf("onNatsConnected") < FirstOf("subscribe")
       /\ LastOf("subscribe") < FirstOf("ready")
       /\ FirstOf("ready") = Len(initLog)
       /\ \A i \in 1..Len(subjectOrder) :
            HandlerResolves(serviceSubjects[subjectOrder[i]]) =>
              \E j \in 1..(Len(initLog) - 1) :
                initLog[j] = [ev |-> "subscribe", on |-> subjectOrder[i]]

\* init has told the primary service and two sub-services, subscribed two
\* bindings and then marked the plugin ready.
C19_Witness ==
  /\ phase = "running"
  /\ ready
  /\ Len(EventsOf("onNatsConnected")) = 3
  /\ Len(EventsOf("subscribe")) = 2
  /\ Len(initLog) = 6

\* C21 (as claimed): every hook call receives the connection the
\* subscriptions were opened on and the binding's handler name, every
\* handler call receives that connection, and evaluating the arguments does
\* not raise: a callable hook the chain reached is entered, and so is a
\* callable handler once quota and hooks have passed.
C21_CallsReceiveContext ==
  \A s \in Subjects :
    Taken(s) =>
      LET r       == current[s]
          config  == serviceSubjects[s]
          service == CurrentService(config)
      IN /\ \A i \in 1..Len(r.hooks) :
              r.hooks[i].client = "connection" /\ r.hooks[i].key = config.key
         /\ \A i \in 1..Len(r.handler) : r.handler[i].client = "connection"
         /\ (r.idx > 0 /\
               MemberKind(HookOwner(service, ReachedHook(s, r)), ReachedHook(s, r)) = "fn")
              => Len(r.hooks) = r.idx
         /\ (PassedQuota(r) /\ AllHooksPassed(s, r) /\
               MemberKind(service, config.key) = "fn")
              => r.handler # << >>

\* The ways the dispatch of the message of r came to answer: the quota
\* rejection, a hook that did not resolve, a hook that blocked, a hook
\* that threw, and a handler call that raised.
Outcomes(r) ==
  { o \in {"quota", "unresolved", "blocked", "hook threw", "handler threw"} :
      CASE o = "quota"         -> Logged(r, "msg body quota exceeded")
        [] o = "unresolved"    -> Logged(r, "Hook not found") \/ Logged(r, "invalid hook type")
        [] o = "blocked"       -> Logged(r, "blocked by hook")
        [] o = "hook threw"    -> Logged(r, "e")
        [] o = "handler threw" -> Logged(r, "e, subject, method") }

\* C22: the dispatch of one message calls respond at most once; it does so
\* exactly when the dispatch ended in one of the five failures, of which at
\* most one happens to a message; and a message whose handler came through
\* gets no response from the dispatch.
C22_AtMostOneResponse ==
  \A s \in Subjects :
    Taken(s) =>
      LET r == current[s]
      IN /\ Len(r.resp) <= 1
         /\ Cardinality(Outcomes(r)) <= 1
         /\ Len(r.resp) = Cardinality(Outcomes(r))
         /\ Logged(r, "subject ended") => r.resp = << >> /\ Outcomes(r) = {}

\* A message that names a reply subject passed two hooks, its handler ran
\* through, and nothing was answered.
C22_Witness ==
  \E s \in Subjects :
    /\ Taken(s)
    /\ current[s].msg.reply
    /\ Len(current[s].hooks) = 2
    /\ Len(current[s].handler) = 1
    /\ Logged(current[s], "subject ended")
    /\ current[s].resp = << >>

====
